---------------------------- MODULE Spec2Model ----------------------------
(***************************************************************************)
(* Medicine finder (src/app.py): the checkout transaction and the chat     *)
(* responder's provider fallback.                                          *)
(*                                                                         *)
(* The store is the one the program configures (app.py:15,17): SQLite      *)
(* behind a Flask-SQLAlchemy session.  Each request has a session of its   *)
(* own: objects it adds or changes are staged in the session, become rows  *)
(* of its open transaction when the session flushes, and reach the         *)
(* committed database only at commit.  A rollback discards them.           *)
(***************************************************************************)
EXTENDS Integers, Sequences, FiniteSets, TLC

(***************************************************************************)
(* Bounds of the model.                                                    *)
(***************************************************************************)
MaxStock == 1
MaxCart  == 2

(***************************************************************************)
(* Catalog and cart values.                                                *)
(***************************************************************************)
\* Medicine rows present in the catalog (primary keys), app.py:37-41.
Items == {1, 2}
\* current_user.id of the session each request comes from (app.py:282).
Caller(r) == r

\* A JSON field of a cart line: absent, null, a number or a string.
NoKey    == [t |-> "absent"]
Null     == [t |-> "null"]
Num(n)   == [t |-> "num", v |-> n]
Text(s)  == [t |-> "str", v |-> s]

StockLevels == 0 .. MaxStock
\* Requested quantities: one negative, and up to more than any stock level.
Quantities  == {0 - 1} \cup (1 .. (MaxStock + 1))
Prices      == {1, 2}
NameFields  == {NoKey, Text("med")}

\* Lines that name a catalog row and carry numbers.
GoodLines ==
    [id : {Num(i) : i \in Items}, name : NameFields,
     price : {Num(p) : p \in Prices}, quantity : {Num(q) : q \in Quantities}]
\* Lines in which any of id, price and quantity may be at fault: no id or the
\* id of no row, no price, a null quantity.
OddLines ==
    [id : {NoKey, Num(3), Num(1)}, name : {Text("med")},
     price : {NoKey, Num(1)}, quantity : {Null, Num(1)}]

CartLines == GoodLines \cup OddLines

\* request.json['cart']: a list of at most MaxCart lines.
Carts == UNION {[1 .. n -> CartLines] : n \in 0 .. MaxCart}

(***************************************************************************)
(* State.                                                                  *)
(***************************************************************************)
Requests == {1, 2}

VARIABLES
    stock,      \* committed Medicine.quantity of each catalog row
    orders,     \* committed Order rows, each with its OrderItem rows
    lock,       \* the writer whose transaction holds SQLite's write lock, or 0
    posts,      \* the admin posts received
    form,       \* the admin post under way: its action and what it staged
    pc,         \* where each request's checkout handler stands
    cart,       \* request.json['cart'] of each request
    idx,        \* 1-based position in the cart of the handler's for loop
    frame,      \* each handler's locals and its session
    before,     \* the committed state when the request was received
    began,      \* the committed state when the request's transaction began
    after,      \* the committed state when the request was answered
    opening,    \* the stock before any of the requests
    chats,      \* committed Chat rows
    cpc,        \* where the chatbot handler stands
    post,       \* request.json of the chat request: message and history
    cstate,     \* get_ai_response: NotStarted, Trying, Succeeded or AllFailed
    cur,        \* position in model_priority of the provider being tried
    attempts,   \* the providers called in this call, in order
    seen,       \* what each called provider answered, in order
    warnings,   \* the [WARN] lines printed in this call
    ret,        \* what get_ai_response returned
    raised,     \* whether an exception left get_ai_response
    reply       \* the JSON the chatbot handler answered

storeVars ==
    <<stock, orders, lock, posts, form, pc, cart, idx, frame, before, began, after, opening>>
callVars  == <<cstate, cur, attempts, seen, warnings, ret, raised>>
chatVars  == <<chats, cpc, post, callVars, reply>>
vars == <<storeVars, chatVars>>

(***************************************************************************)
(* Responses of checkout (app.py:279-312).                                 *)
(***************************************************************************)
NoResponse == [kind |-> "none", status |-> 0, body |-> "none"]
ErrorResponse(kind, status) == [kind |-> kind, status |-> status, body |-> "error"]
SuccessResponse == [kind |-> "Success", status |-> 200, body |-> "message"]
\* An exception no handler catches: Flask answers 500 without a JSON body.
Uncaught(exc) == [kind |-> exc, status |-> 500, body |-> "exception"]

(***************************************************************************)
(* The handler's frame: the local total and the session's staged objects.  *)
(***************************************************************************)
NoMeds == [m \in {} |-> 0]
NothingStaged == [order |-> FALSE, meds |-> NoMeds, items |-> << >>]

IdleFrame ==
    [total |-> 0, order |-> FALSE, meds |-> NoMeds, items |-> << >>,
     tx |-> FALSE, resp |-> NoResponse, discarded |-> NothingStaged]

\* total = 0; order = Order(...); db.session.add(order)
NewFrame == [IdleFrame EXCEPT !.order = TRUE]

\* db.session.rollback(): the staged objects are discarded and the transaction,
\* if one was opened by a flush, ends. "discarded" remembers what was staged.
Rollback(f) ==
    [f EXCEPT !.order = FALSE, !.meds = NoMeds, !.items = << >>, !.tx = FALSE,
              !.discarded = [order |-> f.order, meds |-> f.meds, items |-> f.items]]

\* Mutant: the error is returned without the rollback.
FailWithoutRollback(f, kind) == [f EXCEPT !.resp = ErrorResponse(kind, 400)]
\* db.session.rollback(); return jsonify({'error': ...}), 400
Fail(f, kind) == [Rollback(f) EXCEPT !.resp = ErrorResponse(kind, 400)]

(***************************************************************************)
(* One iteration of the loop over the cart (app.py:285-304).               *)
(***************************************************************************)
IsNumber(x) == x.t = "num"
\* 'id' not in item or not item['id']
MissingId(item) == item.id = NoKey \/ item.id = Null \/ item.id = Num(0)
\* item['price'] * item['quantity'] raises KeyError or TypeError
BadNumbers(item) == ~IsNumber(item.price) \/ ~IsNumber(item.quantity)
\* Mutant: the quantity is left out of the line's amount.
LineAmountNoQuantity(item) == item.price.v
LineAmount(item) == item.price.v * item.quantity.v

\* Medicine.query.get(id): the session's own copy when it has loaded the row,
\* else the row read from the database; << >> stands for None.
QueryGet(f, db, id) ==
    IF id \in DOMAIN f.meds THEN <<f.meds[id]>>
    ELSE IF id \in DOMAIN db THEN <<db[id]>>
    ELSE << >>

\* Mutant: the test lets through one unit more than the row holds.
InsufficientOffByOne(quantity, item) == quantity + 1 < item.quantity.v
\* medicine.quantity < item['quantity']
Insufficient(quantity, item) == quantity < item.quantity.v
\* Mutant: one unit is taken whatever the line asks.
DecrementByOne(quantity, item) == quantity - 1
\* medicine.quantity -= item['quantity']
Decrement(quantity, item) == quantity - item.quantity.v
\* Medicine.price of a catalog row, in the units of Prices.
CatalogPrice(m) == 1
\* Mutant: the OrderItem takes the catalog's price, not the cart's.
OrderItemCatalogPrice(item) ==
    [medicine_id |-> item.id.v, quantity |-> item.quantity.v,
     price |-> CatalogPrice(item.id.v)]
\* OrderItem(order=order, medicine_id=medicine.id, quantity=..., price=...)
OrderItem(item) ==
    [medicine_id |-> item.id.v, quantity |-> item.quantity.v, price |-> item.price.v]

\* f'Insufficient stock for {item["name"]}': the rollback of line 300 has run
\* when the subscript raises KeyError for a line without a name.
InsufficientResponse(item) ==
    IF item.name = NoKey THEN Uncaught("KeyError")
    ELSE ErrorResponse("InsufficientStock", 400)

\* The line reaches Medicine.query.get (line 295).
ReachesQuery(item) == ~MissingId(item) /\ ~BadNumbers(item)

\* Medicine.query.get of a row the session has not loaded autoflushes first:
\* the pending Order is INSERTed, which opens the transaction.
LineStep(f, db, item) ==
    IF MissingId(item) THEN Fail(f, "MissingItemId")
    ELSE IF BadNumbers(item) THEN Fail(f, "InvalidLineData")
    ELSE
      LET g   == [f EXCEPT !.total = f.total + LineAmount(item), !.tx = TRUE]
          med == QueryGet(g, db, item.id.v)
      IN  IF med = << >> THEN Fail(g, "ItemNotFound")
          ELSE IF Insufficient(med[1], item)
               THEN [Rollback(g) EXCEPT !.resp = InsufficientResponse(item)]
          ELSE [g EXCEPT
                  !.meds = [m \in DOMAIN g.meds \cup {item.id.v} |->
                               IF m = item.id.v THEN Decrement(med[1], item)
                               ELSE g.meds[m]],
                  !.items = Append(g.items, OrderItem(item))]

(***************************************************************************)
(* Commit (app.py:306-312).                                                *)
(***************************************************************************)
\* The UPDATEs of the flush: each loaded row is written with the session's value.
Written(f, db) ==
    [m \in DOMAIN db |-> IF m \in DOMAIN f.meds THEN f.meds[m] ELSE db[m]]
\* The INSERTs of the flush: the Order, with order.total = total, and its items.
Recorded(f, u, ords) ==
    Append(ords, [id |-> Len(ords) + 1, user_id |-> u,
                  total |-> f.total, items |-> f.items])
\* Mutant: the staged decrements reach the database although the request is
\* rolled back.
RolledBackAfterWrite(staged, db) == Written(staged, db)
\* db.session.rollback(), or the removal of the session of a request that
\* raised: the Medicine rows stay as committed, whatever was staged.
RolledBack(staged, db) == db
Committed(f) ==
    [f EXCEPT !.order = FALSE, !.meds = NoMeds, !.items = << >>, !.tx = FALSE,
              !.resp = SuccessResponse]
CommitFailed(f) ==
    [Rollback(f) EXCEPT !.resp = ErrorResponse("PersistenceError", 500)]

(***************************************************************************)
(* The chat responder (app.py:70-102) and the chatbot handler (254-265).   *)
(***************************************************************************)
\* model_priority
ModelPriority ==
    <<"meta-llama/llama-3.1-8b-instruct", "google/gemma-7b-it",
      "nousresearch/hermes-2-pro-mistral">>
\* The string of line 102, held as one token.
Apology ==
    <<"Sorry, I encountered an issue with all available AI models. Please try again later.">>

\* Texts are sequences of characters.
Whitespace == {" "}
OK == <<"O", "K">>
Contents ==
    {<< >>, <<" ">>, OK, <<" ", "O", "K">>, <<"O", "K", " ">>,
     <<" ", "O", " ", "K", " ">>}

\* What a call of client.chat.completions.create can do: raise, or return a
\* completion whose choices[0].message.content is a string or None.
Raises(exc) == [t |-> "raise", exc |-> exc]
Completion(content) == [t |-> "completion", content |-> content]
ProviderErrors == {"APITimeoutError", "APIStatusError"}
Outcomes ==
    {Raises(e) : e \in ProviderErrors}
      \cup {Completion(Null)} \cup {Completion(Text(c)) : c \in Contents}

RECURSIVE LStrip(_)
LStrip(s) ==
    IF s # << >> /\ s[1] \in Whitespace THEN LStrip(Tail(s)) ELSE s
RECURSIVE RStrip(_)
RStrip(s) ==
    IF s # << >> /\ s[Len(s)] \in Whitespace THEN RStrip(SubSeq(s, 1, Len(s) - 1)) ELSE s
\* str.strip()
Strip(s) == RStrip(LStrip(s))

\* The try body of lines 92-98 on one provider's outcome: the value returned,
\* or the exception raised (None has no strip: AttributeError).
TryBody(o) ==
    IF o.t = "raise" THEN [t |-> "exc", exc |-> o.exc]
    ELSE IF o.content = Null THEN [t |-> "exc", exc |-> "AttributeError"]
    ELSE [t |-> "value", v |-> Strip(o.content.v)]

\* Mutant: only the API client's own errors are caught.
CaughtApiErrorsOnly(exc) == exc \in ProviderErrors
\* except Exception: the classes it catches.
ExceptionClasses == {"APITimeoutError", "APIStatusError", "AttributeError"}
Caught(exc) == exc \in ExceptionClasses

NoValue == [t |-> "none"]

\* Chat requests.
Messages == {"hi", "dose?"}
Turn(role, content) == [role |-> role, content |-> content]
Histories == {<< >>, <<Turn("user", "hi"), Turn("assistant", "hello")>>}
MaxChats == 2

\* Mutant: the user's turn is left out of the history sent back.
UpdatedHistoryReplyOnly(history, message, response) ==
    history \o <<Turn("assistant", response)>>
\* conversation_history + [user turn, assistant turn]
UpdatedHistory(history, message, response) ==
    history \o <<Turn("user", message), Turn("assistant", response)>>
\* Chat(user_id=..., message=user_input, response=response)
ChatRow(message, response) == [message |-> message, response |-> response]

(***************************************************************************)
(* The checkout handler (app.py:274-312), step by step.  Each request runs *)
(* the handler in its own thread with its own session and connection.      *)
(* SQLite admits one writing transaction at a time: the first flush of a   *)
(* session (the autoflush of the pending Order, before the first SELECT of *)
(* line 295) takes the write lock, and commit or rollback gives it back.   *)
(* A flush that finds the lock taken waits for it, and gives up with       *)
(* "database is locked" when the wait outlasts the connection's timeout.   *)
(* While a request holds the lock no other writer commits, so the rows it  *)
(* reads stay as its transaction found them.                               *)
(***************************************************************************)
\* Lines 277-283: the empty cart is answered at once, else the Order is staged.
Received(c) ==
    IF c = << >> THEN [IdleFrame EXCEPT !.resp = ErrorResponse("EmptyCart", 400)]
    ELSE NewFrame

\* The committed database: the Medicine rows and the Order rows.
Snapshot(db, ords) == [stock |-> db, orders |-> ords]

\* No admin post is under way; answer is what the last one was answered.
Answered(answer) ==
    [action |-> "none", id |-> 0, quantity |-> 0, loaded |-> 0,
     referenced |-> FALSE, answer |-> answer]
NoForm == Answered("none")
\* What a post has staged in its session when it reaches line 216.
Form(action, m, q, loaded, referenced) ==
    [action |-> action, id |-> m, quantity |-> q, loaded |-> loaded,
     referenced |-> referenced, answer |-> "none"]

InitStore ==
    /\ orders = << >>
    /\ lock = 0
    /\ posts = 0
    /\ form = NoForm
    /\ pc = [r \in Requests |-> "idle"]
    /\ cart = [r \in Requests |-> << >>]
    /\ idx = [r \in Requests |-> 0]
    /\ frame = [r \in Requests |-> IdleFrame]
    /\ before = [r \in Requests |-> Snapshot(stock, << >>)]
    /\ began = [r \in Requests |-> Snapshot(stock, << >>)]
    /\ after = [r \in Requests |-> Snapshot(stock, << >>)]
    /\ opening = stock

InitCall ==
    /\ cstate = "NotStarted"
    /\ cur = 0
    /\ attempts = << >>
    /\ seen = << >>
    /\ warnings = << >>
    /\ ret = NoValue
    /\ raised = FALSE

InitChat ==
    /\ chats = << >>
    /\ cpc = "idle"
    /\ post = [message |-> "", history |-> << >>]
    /\ reply = NoValue
    /\ InitCall

\* The catalog as seeded (lines 107-131), at any stock level.
Init ==
    /\ stock \in [Items -> StockLevels]
    /\ InitStore
    /\ InitChat

\* Lines 277-283 for a cart of the set C.
Receive(r, C) ==
    /\ pc[r] = "idle"
    /\ \E c \in C :
         /\ cart' = [cart EXCEPT ![r] = c]
         /\ frame' = [frame EXCEPT ![r] = Received(c)]
         /\ pc' = [pc EXCEPT ![r] = IF c = << >> THEN "done" ELSE "loop"]
         /\ idx' = [idx EXCEPT ![r] = IF c = << >> THEN 0 ELSE 1]
    /\ before' = [before EXCEPT ![r] = Snapshot(stock, orders)]
    /\ began' = [began EXCEPT ![r] = Snapshot(stock, orders)]
    /\ after' = [after EXCEPT ![r] = Snapshot(stock, orders)]
    /\ UNCHANGED <<stock, orders, lock, posts, form, opening, chatVars>>

\* The line's query has to flush first, which takes the write lock.
NeedsLock(f, item) == ReachesQuery(item) /\ ~f.tx

\* Line 295, first half: Medicine.query.get autoflushes the pending Order.
\* The INSERT begins the transaction and takes the write lock.
Autoflush(r) ==
    /\ pc[r] = "loop"
    /\ NeedsLock(frame[r], cart[r][idx[r]])
    /\ lock = 0
    /\ lock' = r
    /\ frame' = [frame EXCEPT ![r].tx = TRUE]
    /\ began' = [began EXCEPT ![r] = Snapshot(stock, orders)]
    /\ UNCHANGED <<stock, orders, posts, form, pc, cart, idx, before, after, opening, chatVars>>

\* Lines 285-304 for the line at idx: the whole line when it fails before its
\* query, else the line from the SELECT of line 295 on.  A line that returns
\* has rolled back, which ends the transaction and gives the lock back.
ProcessLine(r) ==
    /\ pc[r] = "loop"
    /\ ~NeedsLock(frame[r], cart[r][idx[r]])
    /\ LET item == cart[r][idx[r]]
           g    == LineStep(frame[r], stock, item)
           over == g.resp # NoResponse
           db   == IF over THEN RolledBack(g.discarded, stock) ELSE stock
       IN  /\ frame' = [frame EXCEPT ![r] = g]
           /\ stock' = db
           /\ after' = [after EXCEPT ![r] = Snapshot(db, orders)]
           /\ lock' = IF over /\ lock = r THEN 0 ELSE lock
           /\ idx' = [idx EXCEPT ![r] = IF over THEN idx[r] ELSE idx[r] + 1]
           /\ pc' = [pc EXCEPT ![r] =
                  IF over THEN "done"
                  ELSE IF idx[r] = Len(cart[r]) THEN "commit" ELSE "loop"]
    /\ began' = IF frame[r].tx THEN began
                ELSE [began EXCEPT ![r] = Snapshot(stock, orders)]
    /\ UNCHANGED <<orders, posts, form, cart, before, opening, chatVars>>

\* The autoflush of line 295 gives up waiting for the lock: OperationalError
\* leaves the handler, and the session is removed with the request.
LockTimeout(r) ==
    /\ pc[r] = "loop"
    /\ NeedsLock(frame[r], cart[r][idx[r]])
    /\ lock \notin {0, r}
    /\ LET g  == [Rollback(frame[r]) EXCEPT !.resp = Uncaught("OperationalError")]
           db == RolledBack(g.discarded, stock)
       IN  /\ frame' = [frame EXCEPT ![r] = g]
           /\ stock' = db
           /\ after' = [after EXCEPT ![r] = Snapshot(db, orders)]
    /\ pc' = [pc EXCEPT ![r] = "done"]
    /\ began' = [began EXCEPT ![r] = Snapshot(stock, orders)]
    /\ UNCHANGED <<orders, lock, posts, form, cart, idx, before, opening, chatVars>>

\* Lines 306-309: db.session.commit() succeeds.
CommitOk(r) ==
    /\ pc[r] = "commit"
    /\ LET db   == Written(frame[r], stock)
           ords == Recorded(frame[r], Caller(r), orders)
       IN  /\ stock' = db
           /\ orders' = ords
           /\ after' = [after EXCEPT ![r] = Snapshot(db, ords)]
    /\ frame' = [frame EXCEPT ![r] = Committed(frame[r])]
    /\ lock' = 0
    /\ pc' = [pc EXCEPT ![r] = "done"]
    /\ UNCHANGED <<posts, form, cart, idx, before, began, opening, chatVars>>

\* Lines 310-312: db.session.commit() raises.
CommitFails(r) ==
    /\ pc[r] = "commit"
    /\ LET g  == CommitFailed(frame[r])
           db == RolledBack(g.discarded, stock)
       IN  /\ frame' = [frame EXCEPT ![r] = g]
           /\ stock' = db
           /\ after' = [after EXCEPT ![r] = Snapshot(db, orders)]
    /\ lock' = 0
    /\ pc' = [pc EXCEPT ![r] = "done"]
    /\ UNCHANGED <<orders, posts, form, cart, idx, before, began, opening, chatVars>>

\* The steps of request r after its reception.
Handler(r) ==
    \/ Autoflush(r)
    \/ ProcessLine(r)
    \/ LockTimeout(r)
    \/ CommitOk(r)
    \/ CommitFails(r)

(***************************************************************************)
(* POST /admin (app.py:190-218): the other writer of the Medicine rows.    *)
(* It adds a row, sets the quantity of a row or deletes a row, and commits *)
(* at line 216; the flush inside the commit takes the write lock.          *)
(***************************************************************************)
MaxAdminPosts == 1

\* The holder of the write lock that is not a checkout.
AdminWriter == Cardinality(Requests) + 1
\* int(request.form.get('quantity')): any integer the form carries.
AdminQuantities == {0 - 1} \cup StockLevels
\* int(request.form.get('id')): the id of a row, or of no row.
AdminIds == Items \cup {Cardinality(Items) + 1}

\* Medicine.order_items (the backref of line 56) of row m is not empty.
Referenced(ords, m) ==
    \E k \in DOMAIN ords :
        \E i \in DOMAIN ords[k].items : ords[k].items[i].medicine_id = m

\* action == 'edit': medicine.quantity = int(...).  The UPDATE of the flush
\* sets the columns whose value differs from the one loaded at line 206:
\* a quantity posted as it was loaded is not written.
AdminEdit(db, m, q, loaded) == IF q = loaded THEN db ELSE [db EXCEPT ![m] = q]
\* action == 'delete': db.session.delete(medicine).  For a row the flush found
\* referenced, the flush first sets order_item.medicine_id to NULL, which
\* line 53 forbids: IntegrityError, and the row stays.
AdminDelete(db, m, referenced) ==
    IF referenced THEN db ELSE [k \in DOMAIN db \ {m} |-> db[k]]
\* The primary key SQLite gives a new row: one more than the largest.
NextRowId(db) ==
    IF DOMAIN db = {} THEN 1
    ELSE (CHOOSE k \in DOMAIN db : \A j \in DOMAIN db : j <= k) + 1
\* action == 'add': Medicine(name=..., quantity=..., price=...)
AdminAdd(db, q) ==
    [k \in DOMAIN db \cup {NextRowId(db)} |-> IF k = NextRowId(db) THEN q ELSE db[k]]

\* Lines 198-215 and the reads that open the flush of line 216: what the post
\* has staged.  An edit or a delete of a row that is not there (lines 207 and
\* 214) stages nothing, and neither does an edit that posts the row as it is
\* (renamed is whether the posted name or price differs from the row's).
Staged(action, m, q, renamed, db, ords) ==
    IF action = "add" THEN Form("add", 0, q, 0, FALSE)
    ELSE IF m \notin DOMAIN db THEN Answered("302")
    ELSE IF action = "delete" THEN Form("delete", m, 0, db[m], Referenced(ords, m))
    ELSE IF q = db[m] /\ ~renamed THEN Answered("302")
    ELSE Form("edit", m, q, db[m], FALSE)

\* The commit of line 216 raises IntegrityError.
AdminFails(f) == f.action = "delete" /\ f.referenced

\* The catalog the statements of the flush leave.
AdminWrites(f, db) ==
    IF f.action = "add" THEN AdminAdd(db, f.quantity)
    ELSE IF f.id \notin DOMAIN db THEN db
    ELSE IF f.action = "edit" THEN AdminEdit(db, f.id, f.quantity, f.loaded)
    ELSE AdminDelete(db, f.id, f.referenced)

\* Lines 196-215, and line 216 as far as the reads of its flush.  A post that
\* staged nothing commits nothing and is answered at once (302).
AdminPost ==
    /\ posts < MaxAdminPosts
    /\ form.action = "none"
    /\ \E action \in {"add", "edit", "delete"}, m \in AdminIds,
          q \in AdminQuantities, renamed \in BOOLEAN :
         form' = Staged(action, m, q, renamed, stock, orders)
    /\ posts' = posts + 1
    /\ UNCHANGED <<stock, orders, lock, pc, cart, idx, frame, before, began, after,
                   opening, chatVars>>

\* Line 216: the first statement of the flush takes the write lock.
AdminFlush ==
    /\ form.action # "none"
    /\ lock = 0
    /\ lock' = AdminWriter
    /\ UNCHANGED <<stock, orders, posts, form, pc, cart, idx, frame, before, began,
                   after, opening, chatVars>>

\* Line 216: the flush gives up waiting for the lock a checkout holds;
\* OperationalError leaves the handler (500) and nothing is written.
AdminLockTimeout ==
    /\ form.action # "none"
    /\ lock \notin {0, AdminWriter}
    /\ form' = Answered("OperationalError")
    /\ UNCHANGED <<stock, orders, lock, posts, pc, cart, idx, frame, before, began,
                   after, opening, chatVars>>

\* Line 216: the change is committed and the lock given back (302).
AdminCommit ==
    /\ lock = AdminWriter
    /\ ~AdminFails(form)
    /\ stock' = AdminWrites(form, stock)
    /\ lock' = 0
    /\ form' = Answered("302")
    /\ UNCHANGED <<orders, posts, pc, cart, idx, frame, before, began, after,
                   opening, chatVars>>

\* Line 216: the flush raises IntegrityError, which leaves the handler (500);
\* the session is removed with the request, which rolls back.
AdminCommitFails ==
    /\ lock = AdminWriter
    /\ AdminFails(form)
    /\ stock' = AdminWrites(form, stock)
    /\ lock' = 0
    /\ form' = Answered("IntegrityError")
    /\ UNCHANGED <<orders, posts, pc, cart, idx, frame, before, began, after,
                   opening, chatVars>>

Admin ==
    \/ AdminPost
    \/ AdminFlush
    \/ AdminLockTimeout
    \/ AdminCommit
    \/ AdminCommitFails

(***************************************************************************)
(* One checkout, of any cart, beside the admin.                            *)
(***************************************************************************)
Next == Receive(1, Carts) \/ Handler(1) \/ Admin

Spec == Init /\ [][Next]_vars

(***************************************************************************)
(* Checkouts of two callers against a full catalog, beside the admin.      *)
(***************************************************************************)
\* Lines for one unit of either catalog row, at either price.
LedgerLines ==
    [id : {Num(i) : i \in Items}, name : {Text("med")},
     price : {Num(p) : p \in Prices}, quantity : {Num(1)}]
\* Carts of no line, of one and of two.
LedgerCarts ==
    {<< >>} \cup {<<a>> : a \in LedgerLines}
            \cup {<<a, b>> : a \in LedgerLines, b \in LedgerLines}

LedgerNext == (\E r \in Requests : Receive(r, LedgerCarts) \/ Handler(r)) \/ Admin

LedgerInit ==
    /\ stock = [m \in Items |-> MaxStock]
    /\ InitStore
    /\ InitChat

LedgerSpec == LedgerInit /\ [][LedgerNext]_vars

(***************************************************************************)
(* Checkouts of two callers for the same catalog row, beside the admin.    *)
(***************************************************************************)
MaxConcCart == 1

\* Carts of lines for catalog row 1.
ConcLines ==
    [id : {Num(1)}, name : NameFields,
     price : {Num(1)}, quantity : {Num(q) : q \in Quantities}]
ConcCarts == UNION {[1 .. n -> ConcLines] : n \in 0 .. MaxConcCart}

ConcNext == (\E r \in Requests : Receive(r, ConcCarts) \/ Handler(r)) \/ Admin

ConcSpec == Init /\ [][ConcNext]_vars

(***************************************************************************)
(* The chatbot handler and get_ai_response, one provider call at a time.   *)
(***************************************************************************)
\* Lines 255-256: the request is read; get_ai_response is entered.
ChatPost ==
    /\ cpc = "idle"
    /\ Len(chats) < MaxChats
    /\ \E m \in Messages, h \in Histories :
         post' = [message |-> m, history |-> h]
    /\ cpc' = "responding"
    /\ cstate' = "NotStarted"
    /\ cur' = 0
    /\ attempts' = << >>
    /\ seen' = << >>
    /\ warnings' = << >>
    /\ ret' = NoValue
    /\ raised' = FALSE
    /\ reply' = NoValue
    /\ UNCHANGED <<chats, storeVars>>

\* Lines 71-92: the messages are built and the first provider is called.
StartRespond ==
    /\ cpc = "responding"
    /\ cstate = "NotStarted"
    /\ cstate' = "Trying"
    /\ cur' = 1
    /\ attempts' = <<1>>
    /\ UNCHANGED <<seen, warnings, ret, raised, chats, cpc, post, reply, storeVars>>

\* Mutant: a failure skips the provider that follows.
NextProviderSkips(i) == IF i + 1 < Len(ModelPriority) THEN i + 2 ELSE 0
\* Mutant: a provider that failed is called once more before moving on.
NextProviderRetries(i) ==
    IF Len(attempts) < 2 * i THEN i ELSE IF i < Len(ModelPriority) THEN i + 1 ELSE 0
\* Mutant: after the last provider the list is gone through a second time.
NextProviderStartsOver(i) ==
    IF i < Len(ModelPriority) THEN i + 1
    ELSE IF Len(attempts) < 2 * Len(ModelPriority) THEN 1 ELSE 0
\* After provider i: the next one to call, or 0 when the list is exhausted.
NextProvider(i) == IF i < Len(ModelPriority) THEN i + 1 ELSE 0

\* Lines 92-102: the call of provider cur ends with outcome o.
ProviderReturns ==
    /\ cpc = "responding"
    /\ cstate = "Trying"
    /\ \E o \in Outcomes :
         LET res == TryBody(o)
             nxt == NextProvider(cur)
         IN  /\ seen' = Append(seen, o)
             /\ IF res.t = "value"
                THEN /\ cstate' = "Succeeded"
                     /\ ret' = Text(res.v)
                     /\ UNCHANGED <<cur, attempts, warnings, raised>>
                ELSE IF ~Caught(res.exc)
                THEN /\ cstate' = "Raised"
                     /\ raised' = TRUE
                     /\ UNCHANGED <<cur, attempts, warnings, ret>>
                ELSE /\ warnings' = Append(warnings, ModelPriority[cur])
                     /\ raised' = raised
                     /\ IF nxt # 0
                        THEN /\ cur' = nxt
                             /\ attempts' = Append(attempts, nxt)
                             /\ UNCHANGED <<cstate, ret>>
                        ELSE /\ cstate' = "AllFailed"
                             /\ ret' = Text(Apology)
                             /\ UNCHANGED <<cur, attempts>>
    /\ UNCHANGED <<chats, cpc, post, reply, storeVars>>

\* Lines 258-265: the exchange is stored and the response sent.
ChatSave ==
    /\ cpc = "responding"
    /\ cstate \in {"Succeeded", "AllFailed"}
    /\ chats' = Append(chats, ChatRow(post.message, ret.v))
    /\ reply' = [response |-> ret.v,
                 history |-> UpdatedHistory(post.history, post.message, ret.v)]
    /\ cpc' = "idle"
    /\ UNCHANGED <<post, callVars, storeVars>>

\* Line 260 raises: db.session.commit() is outside any try, so the exception
\* leaves the handler; the pending Chat goes with the request's session.
ChatSaveFails ==
    /\ cpc = "responding"
    /\ cstate \in {"Succeeded", "AllFailed"}
    /\ reply' = Uncaught("SQLAlchemyError")
    /\ cpc' = "idle"
    /\ UNCHANGED <<chats, post, callVars, storeVars>>

ChatNext == ChatPost \/ StartRespond \/ ProviderReturns \/ ChatSave \/ ChatSaveFails

\* The chat requests are followed from one catalog.
ChatInit ==
    /\ stock = [m \in Items |-> MaxStock]
    /\ InitStore
    /\ InitChat

ChatSpec == ChatInit /\ [][ChatNext]_vars

\* The handler's thread runs on, and every provider call returns, with a
\* completion or with an error (the client's timeout at the latest).
ChatLive ==
    /\ ChatInit
    /\ [][ChatNext]_vars
    /\ WF_vars(StartRespond)
    /\ WF_vars(ProviderReturns)

(***************************************************************************)
(* Properties.                                                             *)
(***************************************************************************)
Rejected(r)  == pc[r] = "done" /\ frame[r].resp.kind # "Success"
Succeeded(r) == pc[r] = "done" /\ frame[r].resp.kind = "Success"

RECURSIVE Requested(_, _)
\* The quantity the lines of cart c ask of catalog row m, summed.
Requested(c, m) ==
    IF c = << >> THEN 0
    ELSE (IF Head(c).id = Num(m) /\ IsNumber(Head(c).quantity)
          THEN Head(c).quantity.v ELSE 0) + Requested(Tail(c), m)

RECURSIVE CartTotal(_)
\* The sum over a cart of numbers of quantity x price.
CartTotal(c) ==
    IF c = << >> THEN 0
    ELSE Head(c).quantity.v * Head(c).price.v + CartTotal(Tail(c))

RECURSIVE ItemsTotal(_)
\* The sum over an order's OrderItem rows of quantity x price.
ItemsTotal(items) ==
    IF items = << >> THEN 0
    ELSE Head(items).quantity * Head(items).price + ItemsTotal(Tail(items))

RECURSIVE SoldTo(_, _)
\* What the requests of R that succeeded asked of catalog row m, summed.
SoldTo(R, m) ==
    IF R = {} THEN 0
    ELSE LET r == CHOOSE x \in R : TRUE
         IN  (IF Succeeded(r) THEN Requested(cart[r], m) ELSE 0) + SoldTo(R \ {r}, m)

\* C1: a checkout that is rejected, with whatever error and at whatever line,
\* has changed nothing: the committed stock and the committed orders when it
\* is answered are those its transaction found when it began (those of the
\* step that answered it, when it opened none), and nothing is left staged.
RejectedCheckoutChangesNothing ==
    \A r \in Requests :
        Rejected(r) =>
            /\ after[r].stock = began[r].stock
            /\ after[r].orders = began[r].orders
            /\ ~frame[r].order /\ frame[r].meds = NoMeds /\ frame[r].items = << >>
            /\ ~frame[r].tx

\* C1 witness: a two-line cart rejected at its second line for lack of stock,
\* after the first line's decrement and OrderItem had been staged.
RejectedAtSecondLine ==
    \E r \in Requests :
        /\ Rejected(r)
        /\ frame[r].resp.kind = "InsufficientStock"
        /\ idx[r] = 2
        /\ Len(frame[r].discarded.items) = 1
        /\ frame[r].discarded.order
        /\ \E m \in DOMAIN frame[r].discarded.meds :
               frame[r].discarded.meds[m] # began[r].stock[m]

OneLineOf(c, m, q) ==
    /\ Len(c) = 1
    /\ c[1].id = Num(m)
    /\ c[1].quantity = Num(q)

\* C2: whatever the interleaving of the checkouts, and no admin post adding
\* to the catalog meanwhile, what the successful ones bought of a catalog row
\* is never more than the row's stock before them; and of two checkouts that
\* each ask for q of a row holding less than 2q but at least q, neither
\* failing at its commit, exactly one succeeds and the other fails with
\* InsufficientStock.
ConcurrentCheckoutsNeverOversell ==
    posts = 0 =>
    /\ \A m \in Items : SoldTo(Requests, m) <= opening[m]
    /\ \A m \in Items, q \in Quantities :
         ( /\ \A r \in Requests : pc[r] = "done" /\ OneLineOf(cart[r], m, q)
           /\ \A r \in Requests : frame[r].resp.kind # "PersistenceError"
           /\ q <= opening[m] /\ opening[m] < 2 * q )
         => /\ Cardinality({r \in Requests : Succeeded(r)}) = 1
            /\ Cardinality({r \in Requests :
                              frame[r].resp.kind = "InsufficientStock"}) = 1

\* C3: whatever checkouts ran and however they interleaved, the committed
\* quantity of every catalog row is at least 0 in every state reached without
\* an admin post, and no step of a checkout ever takes the quantity of a row
\* below 0.
StockNeverNegative ==
    /\ [](posts = 0 => \A m \in DOMAIN stock : stock[m] >= 0)
    /\ [][\A m \in DOMAIN stock \cap DOMAIN stock' :
             (lock # AdminWriter /\ stock[m] >= 0) => stock'[m] >= 0]_vars

\* C3 witness: one checkout has taken the last of row 1 and another was
\* refused.
StockTakenToZero ==
    /\ posts = 0
    /\ opening[1] > 0
    /\ stock[1] = 0
    /\ \E r \in Requests : Succeeded(r) /\ Requested(cart[r], 1) > 0
    /\ \E r \in Requests : Rejected(r) /\ frame[r].resp.kind = "InsufficientStock"

\* C4: the total of every committed Order is the sum over its OrderItem rows
\* of quantity x price.
OrderTotalIsSumOfLines ==
    \A k \in DOMAIN orders : orders[k].total = ItemsTotal(orders[k].items)

\* C4 witness: a committed order of two lines for the same catalog row at
\* different prices.
OrderWithRepeatedItem ==
    \E k \in DOMAIN orders :
        /\ Len(orders[k].items) = 2
        /\ orders[k].items[1].medicine_id = orders[k].items[2].medicine_id
        /\ orders[k].items[1].price # orders[k].items[2].price
        /\ orders[k].total # 0

\* A one-line cart of numbers for a catalog row, asking more than the row holds.
OneLineOverStock(r) ==
    /\ Len(cart[r]) = 1
    /\ cart[r][1].id \in {Num(m) : m \in DOMAIN began[r].stock}
    /\ IsNumber(cart[r][1].price)
    /\ IsNumber(cart[r][1].quantity)
    /\ cart[r][1].quantity.v > began[r].stock[cart[r][1].id.v]

\* The request got the write lock: it did not give up waiting for it.
GotLock(r) == frame[r].resp.kind # "OperationalError"

\* C5: every one-line cart that asks for more than the stock of the catalog
\* row it names is refused with InsufficientStock, and the row's quantity is
\* unchanged.
OneLineOverStockIsRefused ==
    \A r \in Requests :
        (pc[r] = "done" /\ GotLock(r) /\ OneLineOverStock(r)) =>
            /\ frame[r].resp.kind = "InsufficientStock"
            /\ after[r].stock = began[r].stock

\* C6: a successful checkout leaves every catalog row with what it had less
\* what the cart's lines asked of it (nothing, for a row the cart does not
\* name), and records one more order, for the cart's total.
SuccessDecrementsExactly ==
    \A r \in Requests :
        Succeeded(r) =>
            /\ DOMAIN after[r].stock = DOMAIN began[r].stock
            /\ \A m \in DOMAIN began[r].stock :
                   after[r].stock[m] = began[r].stock[m] - Requested(cart[r], m)
            /\ after[r].orders =
                   Append(began[r].orders, after[r].orders[Len(after[r].orders)])
            /\ after[r].orders[Len(after[r].orders)].total = CartTotal(cart[r])

\* C6 witness: a successful cart of two lines, both for row 1, that lowers the
\* stock of row 1 and leaves row 2 alone.
SuccessOnOneRow ==
    \E r \in Requests :
        /\ Succeeded(r)
        /\ Len(cart[r]) = 2
        /\ cart[r][1].id = Num(1) /\ cart[r][2].id = Num(1)
        /\ after[r].stock[1] < began[r].stock[1]
        /\ 2 \in DOMAIN began[r].stock
        /\ after[r].stock[2] = began[r].stock[2]
        /\ began[r].stock[2] > 0

\* The provider's outcome counts as a failure: the try body raised.
Failed(o) == TryBody(o).t = "exc"
FailedCalls == {k \in DOMAIN seen : Failed(seen[k])}

\* C7: the providers called in one call are the first ones of the priority
\* list, in its order; a provider is called only after the one before it
\* failed; and when a provider's call succeeds it is the last one called and
\* the value returned is its response (stripped, as line 98 returns it).
ProvidersTriedInOrder ==
    /\ Len(attempts) <= Len(ModelPriority)
    /\ \A k \in DOMAIN attempts : attempts[k] = k
    /\ Len(seen) <= Len(attempts)
    /\ \A k \in DOMAIN attempts : k > 1 => (k - 1 \in DOMAIN seen /\ Failed(seen[k - 1]))
    /\ \A k \in DOMAIN seen :
         ~Failed(seen[k]) =>
            /\ k = Len(attempts)
            /\ cstate = "Succeeded"
            /\ ret = Text(Strip(seen[k].content.v))
    /\ cstate = "Succeeded" => (seen # << >> /\ ~Failed(seen[Len(seen)]))

\* C7 witness: the first provider failed, the second answered " OK", which
\* was returned as "OK", and the third was never called.
SecondProviderAnswered ==
    /\ cstate = "Succeeded"
    /\ attempts = <<1, 2>>
    /\ Failed(seen[1])
    /\ seen[2] = Completion(Text(<<" ", "O", "K">>))
    /\ ret = Text(OK)

\* C8: no exception leaves get_ai_response, and when every provider of the
\* list has failed, for whatever reason, the call returns the apology string.
ExhaustionReturnsApology ==
    /\ ~raised
    /\ cstate # "Raised"
    /\ (Len(seen) = Len(ModelPriority) /\ FailedCalls = DOMAIN seen)
         => (cstate = "AllFailed" /\ ret = Text(Apology))
    /\ cstate = "AllFailed" => ret = Text(Apology)

\* C8 witness: the three providers failed in three ways (a timeout, a
\* rejection, a completion without content) and the apology was returned.
AllThreeFailed ==
    /\ cstate = "AllFailed"
    /\ ret = Text(Apology)
    /\ {seen[k] : k \in DOMAIN seen} =
         {Raises("APITimeoutError"), Raises("APIStatusError"), Completion(Null)}

\* C9: no provider is called twice in one call; the warnings printed are one
\* per failed provider, naming it; two when providers 1 and 2 fail and
\* provider 3 answers "OK", which is then returned; three when all fail.
OneAttemptAndOneWarningEach ==
    /\ \A i, j \in DOMAIN attempts : i # j => attempts[i] # attempts[j]
    /\ Len(warnings) = Cardinality(FailedCalls)
    /\ \A k \in DOMAIN warnings : k \in FailedCalls /\ warnings[k] = ModelPriority[k]
    /\ (Len(seen) = 3 /\ FailedCalls = {1, 2} /\ seen[3] = Completion(Text(OK)))
         => (ret = Text(OK) /\ Len(warnings) = 2)
    /\ cstate = "AllFailed" => Len(warnings) = 3

\* C9 witness: providers 1 and 2 failed, provider 3 answered "OK": "OK" was
\* returned after two warnings.
ThirdProviderAnsweredOK ==
    /\ cstate = "Succeeded"
    /\ attempts = <<1, 2, 3>>
    /\ FailedCalls = {1, 2}
    /\ seen[3] = Completion(Text(OK))
    /\ ret = Text(OK)
    /\ warnings = <<ModelPriority[1], ModelPriority[2]>>

\* A completion whose text is empty once stripped.
EmptyResponse(o) == ~Failed(o) /\ Strip(o.content.v) = << >>

\* C10: a text returned from a provider is not empty and is the response of
\* the first provider of the list whose response was not empty; a provider
\* whose response is empty does not end the chain.
ReturnedTextIsFirstNonEmpty ==
    /\ cstate = "Succeeded" => ret.v # << >>
    /\ \A k \in DOMAIN seen :
         EmptyResponse(seen[k]) => (cstate = "Trying" /\ k < Len(attempts))

\* The failures the handler answers with 400, and the one it answers with 500.
ValidationOrStockErrors ==
    {"EmptyCart", "MissingItemId", "InvalidLineData", "ItemNotFound",
     "InsufficientStock"}

\* C11: every failed checkout is answered with an {error} body; the status is
\* 400 when the failure is a validation or stock error and 500 only when it is
\* the commit that failed, whichever of id, name, price and quantity the
\* cart's lines carry or omit.
FailedCheckoutAnswersErrorBody ==
    \A r \in Requests :
        Rejected(r) /\ GotLock(r) =>
            /\ frame[r].resp.body = "error"
            /\ \/ frame[r].resp.kind \in ValidationOrStockErrors
                  /\ frame[r].resp.status = 400
               \/ frame[r].resp.kind = "PersistenceError"
                  /\ frame[r].resp.status = 500

\* The chatbot handler ends: its commit went through or raised.
ChatHandlerEnds == cpc = "responding" /\ cpc' = "idle"

\* The request's exchange is logged and returned: one row is appended,
\* holding the message and the string get_ai_response returned (the apology
\* when every provider failed), and the answer carries that string and the
\* input history followed by the user's turn and then the assistant's.
ExchangeLogged ==
    /\ Len(chats') = Len(chats) + 1
    /\ chats'[Len(chats')].message = post.message
    /\ chats'[Len(chats')].response = ret.v
    /\ cstate = "AllFailed" => chats'[Len(chats')].response = Apology
    /\ reply'.response = ret.v
    /\ Len(reply'.history) = Len(post.history) + 2
    /\ SubSeq(reply'.history, 1, Len(post.history)) = post.history
    /\ reply'.history[Len(post.history) + 1] = Turn("user", post.message)
    /\ reply'.history[Len(post.history) + 2] = Turn("assistant", ret.v)

\* C12 as claimed: the chat log only grows at its end; every chat request
\* appends exactly one row, holding its message and the string
\* get_ai_response returned, and is answered with its input history followed
\* by the two new turns; nothing else touches the log.
EachChatRequestAppendsOne ==
    [][ /\ Len(chats') >= Len(chats)
        /\ SubSeq(chats', 1, Len(chats)) = chats
        /\ ChatHandlerEnds => ExchangeLogged
        /\ ~ChatHandlerEnds => chats' = chats
      ]_vars

\* C12, amended: the chat log only grows at its end; a chat request either
\* appends exactly one row, holding its message and the string
\* get_ai_response returned (the apology when every provider failed), and is
\* answered with that string and with its input history followed by the
\* user's turn and then the assistant's, or, when the commit of line 260
\* raises, appends nothing and is answered with the uncaught exception;
\* nothing else touches the log.
ChatLogAppendOnly ==
    [][ /\ Len(chats') >= Len(chats)
        /\ SubSeq(chats', 1, Len(chats)) = chats
        /\ ChatHandlerEnds =>
             \/ ExchangeLogged
             \/ chats' = chats /\ reply' = Uncaught("SQLAlchemyError")
        /\ ~ChatHandlerEnds => chats' = chats
      ]_vars

\* C12 witness: a request was answered with a provider's text and logged;
\* the next one, with another message and a history of two turns, went
\* through every provider and failed at its commit: the log holds the first
\* exchange alone.
ExchangeLoggedThenCommitFailed ==
    /\ cpc = "idle"
    /\ chats = <<ChatRow("hi", OK)>>
    /\ post.message = "dose?"
    /\ Len(post.history) = 2
    /\ cstate = "AllFailed"
    /\ ret.v = Apology
    /\ reply = Uncaught("SQLAlchemyError")

\* What request r found row m to hold when it reached line i of its cart: the
\* committed quantity less what the lines before i asked of the row.
LeftFor(r, i, m) == began[r].stock[m] - Requested(SubSeq(cart[r], 1, i - 1), m)

\* The first of the four checks that line i of r's cart fails, in the order
\* missing id, invalid price or quantity, item not found, insufficient stock.
LineError(r, i) ==
    LET item == cart[r][i]
    IN  IF MissingId(item) THEN "MissingItemId"
        ELSE IF BadNumbers(item) THEN "InvalidLineData"
        ELSE IF item.id.v \notin DOMAIN began[r].stock THEN "ItemNotFound"
        ELSE IF LeftFor(r, i, item.id.v) < item.quantity.v THEN "InsufficientStock"
        ELSE "none"

FailingLines(r) == {i \in DOMAIN cart[r] : LineError(r, i) # "none"}
FirstFailingLine(r) ==
    CHOOSE i \in FailingLines(r) : \A j \in FailingLines(r) : i <= j

\* C13: an empty cart is answered EmptyCart before anything else; otherwise
\* the error returned is that of the earliest failing check of the earliest
\* failing line, the loop having stopped at that line; a cart without a
\* failing line gets as far as the commit.
FirstErrorInProcessingOrder ==
    \A r \in Requests :
        pc[r] = "done" /\ GotLock(r) =>
            IF cart[r] = << >>
            THEN frame[r].resp.kind = "EmptyCart" /\ idx[r] = 0
            ELSE IF FailingLines(r) # {}
            THEN /\ idx[r] = FirstFailingLine(r)
                 /\ frame[r].resp.kind = LineError(r, FirstFailingLine(r))
            ELSE frame[r].resp.kind \in {"Success", "PersistenceError"}

\* The checkout of r was answered with a validation error.
ValidationFailure(r) ==
    pc[r] = "done" /\ frame[r].resp.kind \in {"MissingItemId", "InvalidLineData"}

\* C14 as claimed: when a validation error is detected nothing has been
\* staged: no Order header, no OrderItem, no decrement.
ValidationFailureStagedNothing ==
    \A r \in Requests :
        ValidationFailure(r) => frame[r].discarded = NothingStaged

\* C14, amended: when a validation error is detected at line i the session
\* holds the Order header and the OrderItem of each of the i - 1 lines before
\* it, with their decrements; the rollback that precedes the answer discards
\* all of it, so that nothing stays staged and the committed stock and orders
\* are those the request found.
ValidationFailureDiscardsStaged ==
    \A r \in Requests :
        ValidationFailure(r) =>
            /\ frame[r].discarded.order
            /\ Len(frame[r].discarded.items) = idx[r] - 1
            /\ \A k \in DOMAIN frame[r].discarded.items :
                   frame[r].discarded.items[k] = OrderItem(cart[r][k])
            /\ \A m \in DOMAIN began[r].stock :
                   IF \E k \in 1 .. (idx[r] - 1) : cart[r][k].id = Num(m)
                   THEN /\ m \in DOMAIN frame[r].discarded.meds
                        /\ frame[r].discarded.meds[m] = LeftFor(r, idx[r], m)
                   ELSE m \notin DOMAIN frame[r].discarded.meds
            /\ ~frame[r].order /\ frame[r].meds = NoMeds /\ frame[r].items = << >>
            /\ ~frame[r].tx
            /\ after[r].stock = began[r].stock
            /\ after[r].orders = began[r].orders

\* C14 witness: the second line of a cart has no price; the first line's
\* OrderItem and decrement were staged with the Order header, and discarded.
InvalidSecondLineAfterStagedFirst ==
    \E r \in Requests :
        /\ ValidationFailure(r)
        /\ frame[r].resp.kind = "InvalidLineData"
        /\ idx[r] = 2
        /\ frame[r].discarded.order
        /\ Len(frame[r].discarded.items) = 1
        /\ \E m \in DOMAIN frame[r].discarded.meds :
               frame[r].discarded.meds[m] < began[r].stock[m]
        /\ after[r].stock = began[r].stock

\* C15: the orders committed are one per successful checkout; the order of
\* a successful checkout is owned by its caller and has one OrderItem per cart
\* line, in the cart's order, carrying the line's id, quantity and price (the
\* price the client sent); a rejected checkout adds no order, the orders
\* being as many as the successful checkouts; and the orders
\* committed before a checkout are still there, unchanged, after it.
OneOrderPerSuccessfulCheckout ==
    /\ Len(orders) = Cardinality({r \in Requests : Succeeded(r)})
    /\ \A k \in DOMAIN orders : orders[k].id = k
    /\ \A r \in Requests :
         pc[r] = "done" =>
            /\ SubSeq(orders, 1, Len(before[r].orders)) = before[r].orders
            /\ SubSeq(orders, 1, Len(after[r].orders)) = after[r].orders
            /\ Rejected(r) => after[r].orders = began[r].orders
            /\ Succeeded(r) =>
                 /\ Len(after[r].orders) = Len(began[r].orders) + 1
                 /\ LET o == orders[Len(began[r].orders) + 1]
                    IN  /\ o.user_id = Caller(r)
                        /\ Len(o.items) = Len(cart[r])
                        /\ \A k \in DOMAIN cart[r] :
                             /\ o.items[k].medicine_id = cart[r][k].id.v
                             /\ o.items[k].quantity = cart[r][k].quantity.v
                             /\ o.items[k].price = cart[r][k].price.v

\* C15 witness: both callers checked out with success, one after the other;
\* the first one's order, with a line priced differently from the catalog,
\* is as it was when the second began.
TwoOrdersSecondLeavesFirst ==
    /\ \A r \in Requests : Succeeded(r)
    /\ Len(orders) = 2
    /\ orders[1].user_id # orders[2].user_id
    /\ \E r \in Requests : began[r].orders = <<orders[1]>>
    /\ \E k \in DOMAIN orders[1].items :
           orders[1].items[k].price # CatalogPrice(orders[1].items[k].medicine_id)

CallStarted == cpc = "responding" /\ cstate = "NotStarted"
CallEnded == cstate \in {"Succeeded", "AllFailed"}
\* The provider calls made and not yet returned.
InFlight == Len(attempts) - Len(seen)

\* C16: a call of get_ai_response starts at NotStarted with no provider
\* called, has at most one provider call in flight at any moment (one while
\* Trying, none otherwise), makes at most three provider calls, and, every
\* provider call returning, reaches Succeeded or AllFailed; both are final:
\* the call's state changes no more until the next call starts afresh.
RespondTerminates ==
    /\ [](/\ cstate \in {"NotStarted", "Trying", "Succeeded", "AllFailed"}
          /\ Len(attempts) <= Len(ModelPriority)
          /\ InFlight = (IF cstate = "Trying" THEN 1 ELSE 0)
          /\ cstate = "NotStarted" => attempts = << >>)
    /\ [][CallEnded /\ callVars' # callVars
            => cpc = "idle" /\ cpc' = "responding" /\ cstate' = "NotStarted"]_vars
    /\ CallStarted ~> CallEnded

\* C16 witness: a call that ended at AllFailed with its third provider call
\* returned and none in flight, the handler not yet having stored the reply.
RespondEndedAfterThreeCalls ==
    /\ cpc = "responding"
    /\ cstate = "AllFailed"
    /\ Len(attempts) = 3
    /\ Len(seen) = 3
    /\ InFlight = 0

\* Every line of r's cart names a catalog row and carries numbers, asks for
\* no negative quantity and for no more than its row held at the start.
EachLineAloneFits(r) ==
    \A i \in DOMAIN cart[r] :
        /\ cart[r][i].id \in {Num(m) : m \in DOMAIN began[r].stock}
        /\ ~BadNumbers(cart[r][i])
        /\ cart[r][i].quantity.v >= 0
        /\ cart[r][i].quantity.v <= began[r].stock[cart[r][i].id.v]
\* The lines of r's cart ask of some row, together, more than it held.
SumExceedsStock(r) ==
    \E i \in DOMAIN cart[r] :
        Requested(cart[r], cart[r][i].id.v) > began[r].stock[cart[r][i].id.v]

\* C17: the lines of one cart for the same catalog row are checked against
\* what the earlier lines left of it: a cart whose lines each fit the stock
\* but together ask of a row more than it holds fails with InsufficientStock,
\* at the first line that what is left does not cover, and changes no stock.
SameItemLinesCheckedCumulatively ==
    \A r \in Requests :
        (pc[r] = "done" /\ GotLock(r) /\ EachLineAloneFits(r) /\ SumExceedsStock(r)) =>
            /\ frame[r].resp.kind = "InsufficientStock"
            /\ LeftFor(r, idx[r], cart[r][idx[r]].id.v) < cart[r][idx[r]].quantity.v
            /\ \A j \in 1 .. (idx[r] - 1) :
                   LeftFor(r, j, cart[r][j].id.v) >= cart[r][j].quantity.v
            /\ after[r].stock = began[r].stock

\* C18: whatever integers the lines of a cart give as quantity, no catalog
\* row holds more after the checkout than before it, and the total of a
\* committed order is not negative (the prices sent being non-negative).
CheckoutOnlyRemovesStock ==
    /\ \A r \in Requests :
         pc[r] = "done" =>
            \A m \in DOMAIN began[r].stock \cap DOMAIN after[r].stock :
                after[r].stock[m] <= began[r].stock[m]
    /\ \A k \in DOMAIN orders : orders[k].total >= 0

=============================================================================
